---------------------------- MODULE Spec2Model ----------------------------
(***************************************************************************)
(* Model of onvif/src/soap/auth/digest.rs: the HTTP Digest negotiator     *)
(* `Digest` (fields creds, uri, state), its operations new, set_401,      *)
(* is_failed and add_headers, and the header selection of digest_auth.    *)
(*                                                                         *)
(* Header values are byte sequences (0..255), as reqwest's HeaderValue    *)
(* holds them; to_str, to_ascii_lowercase and str::contains are computed  *)
(* on the bytes.  The digest_auth crate (parse / respond) is outside the  *)
(* repository: each call's outcome is an input `lib` of add_headers, and  *)
(* a successful respond yields a term that records what it was given.     *)
(***************************************************************************)
EXTENDS Integers, Sequences, FiniteSets

VARIABLES
    creds,      \* Digest.creds : Option<Credentials>, <<>> or <<[username, password]>>
    uri,        \* Digest.uri : Url
    state,      \* Digest.state : State
    lastCall,   \* the last call made on the negotiator, with its arguments and result
    n401,       \* history: number of set_401 calls made so far
    first401,   \* history: <<response>> of the first set_401 call, <<>> before it
    pc,         \* retry loop: position of the caller
    sends,      \* retry loop: number of physical attempts sent
    pending     \* retry loop: <<response>> received and not yet handed to set_401

vars == <<creds, uri, state, lastCall, n401, first401, pc, sends, pending>>

---------------------------------------------------------------------------
(* Bounds *)

\* most WWW-Authenticate occurrences on one response
MaxHeaders == 2

\* most set_401 calls in one behaviour
Max401Calls == 3

\* most physical attempts the retry loop is allowed to count
MaxSends == 4

---------------------------------------------------------------------------
(* Header values: the bytes of each WWW-Authenticate occurrence *)

\* Digest realm="x", nonce="n1", algorithm=SHA-256
H_SHA ==
    <<68, 105, 103, 101, 115, 116, 32, 114, 101, 97, 108, 109, 61, 34, 120, 34, 44, 32, 110, 111, 110, 99, 101, 61, 34, 110, 49, 34, 44, 32, 97, 108, 103, 111, 114, 105, 116, 104, 109, 61, 83, 72, 65, 45, 50, 53, 54>>

\* Digest realm="onvif", nonce="abc123", algorithm=MD5, qop="auth"
H_MD5 ==
    <<68, 105, 103, 101, 115, 116, 32, 114, 101, 97, 108, 109, 61, 34, 111, 110, 118, 105, 102, 34, 44, 32, 110, 111, 110, 99, 101, 61, 34, 97, 98, 99, 49, 50, 51, 34, 44, 32, 97, 108, 103, 111, 114, 105, 116, 104, 109, 61, 77, 68, 53, 44, 32, 113, 111, 112, 61, 34, 97, 117, 116, 104, 34>>

\* Digest realm="x", nonce="n2"
H_DIGEST ==
    <<68, 105, 103, 101, 115, 116, 32, 114, 101, 97, 108, 109, 61, 34, 120, 34, 44, 32, 110, 111, 110, 99, 101, 61, 34, 110, 50, 34>>

\* Basic realm="x"
H_BASIC ==
    <<66, 97, 115, 105, 99, 32, 114, 101, 97, 108, 109, 61, 34, 120, 34>>

\* Bearer ALGORITHM=sha-256
H_SHA_BEARER ==
    <<66, 101, 97, 114, 101, 114, 32, 65, 76, 71, 79, 82, 73, 84, 72, 77, 61, 115, 104, 97, 45, 50, 53, 54>>

\* Basic algorithm=md5
H_MD5_BASIC ==
    <<66, 97, 115, 105, 99, 32, 97, 108, 103, 111, 114, 105, 116, 104, 109, 61, 109, 100, 53>>

\* Digest realm="\xFF"   (byte 255: not visible ASCII)
H_BINARY ==
    <<68, 105, 103, 101, 115, 116, 32, 114, 101, 97, 108, 109, 61, 34, 255, 34>>

HeaderValues ==
    {H_SHA, H_MD5, H_DIGEST, H_BASIC, H_SHA_BEARER, H_MD5_BASIC, H_BINARY}

RECURSIVE SeqsUpTo(_, _)
SeqsUpTo(S, n) ==
    IF n = 0 THEN {<<>>}
    ELSE LET shorter == SeqsUpTo(S, n - 1)
         IN  shorter \cup {Append(s, x) : s \in shorter, x \in S}

\* reqwest::Response, reduced to its WWW-Authenticate occurrences in original order
Responses == SeqsUpTo(HeaderValues, MaxHeaders)

---------------------------------------------------------------------------
(* Option, Result, Error *)

None == <<>>
Some(x) == <<x>>

Ok(v) == [ok |-> TRUE, value |-> v]
Err(e) == [ok |-> FALSE, value |-> e]

InvalidState == [kind |-> "InvalidState", msg |-> ""]
NoCredentials == [kind |-> "NoCredentials", msg |-> ""]
DigestError(msg) == [kind |-> "Digest", msg |-> msg]

---------------------------------------------------------------------------
(* State *)

Default == [tag |-> "Default"]
Got401(response) == [tag |-> "Got401", response |-> response]
Got401Twice == [tag |-> "Got401Twice"]

---------------------------------------------------------------------------
(* Inputs of new and add_headers *)

Urls ==
    { [scheme |-> "https", host |-> "cam.local", path |-> "/onvif/device_service", query |-> ""],
      [scheme |-> "http", host |-> "192.168.0.2", path |-> "/onvif/media", query |-> "profile=1"] }

CredentialsSet ==
    { None, Some([username |-> "alice", password |-> "secret"]) }

\* RequestBuilder: method, url and the headers added so far, in order
Requests ==
    { [method |-> "POST", url |-> "/onvif/device_service",
       headers |-> << <<"content-type", "application/soap+xml">> >>],
      [method |-> "GET", url |-> "/other",
       headers |-> << <<"authorization", "Basic Zm9v">> >>] }

\* outcome of the digest_auth crate on one add_headers call
LibOutcomes == {"ok", "parse_err", "respond_err"}

---------------------------------------------------------------------------
(* Text operations on header bytes *)

\* http::HeaderValue::to_str accepts visible ASCII and tab only
is_visible_ascii(b) == (b >= 32 /\ b < 127) \/ b = 9

ToStrErrorMsg == "failed to convert header to a str"

to_str(value) ==
    IF \A i \in 1..Len(value) : is_visible_ascii(value[i])
    THEN Ok(value)
    ELSE Err(ToStrErrorMsg)

\* str::to_ascii_lowercase: 'A'..'Z' (65..90) become 'a'..'z', the rest is kept
to_ascii_lowercase(s) ==
    [i \in 1..Len(s) |-> IF s[i] >= 65 /\ s[i] <= 90 THEN s[i] + 32 ELSE s[i]]

\* str::contains: pat occurs as a contiguous substring of s
contains(s, pat) ==
    \E i \in 0..(Len(s) - Len(pat)) : SubSeq(s, i + 1, i + Len(pat)) = pat

---------------------------------------------------------------------------
(* digest_auth: header selection *)

\* algorithm=sha
P_SHA ==
    <<97, 108, 103, 111, 114, 105, 116, 104, 109, 61, 115, 104, 97>>

\* algorithm=md5
P_MD5 ==
    <<97, 108, 103, 111, 114, 105, 116, 104, 109, 61, 109, 100, 53>>

\* digest
P_DIGEST ==
    <<100, 105, 103, 101, 115, 116>>

\* the array without its last entry
Methods_no_digest == <<P_SHA, P_MD5>>

\* the array the outer loop runs over
Methods == <<P_SHA, P_MD5, P_DIGEST>>

NoHeaderMsg == "No www-authenticate digest header"

\* the inner loop without the break: the last matching occurrence is taken
RECURSIVE scan_headers_last(_, _, _)
scan_headers_last(www_auth_headers, method, i) ==
    IF i > Len(www_auth_headers) THEN Ok(None)
    ELSE LET header_str == to_str(www_auth_headers[i])
             later == scan_headers_last(www_auth_headers, method, i + 1)
         IN  IF ~header_str.ok THEN Err(DigestError(header_str.value))
             ELSE IF ~later.ok THEN later
             ELSE IF later.value # None THEN later
             ELSE IF contains(to_ascii_lowercase(header_str.value), method)
                  THEN Ok(Some(header_str.value))
                  ELSE Ok(None)

\* the inner loop converting every remaining occurrence to text before it
\* looks for a match
RECURSIVE scan_headers_eager(_, _, _)
scan_headers_eager(www_auth_headers, method, i) ==
    IF \E k \in i..Len(www_auth_headers) : ~to_str(www_auth_headers[k]).ok
    THEN Err(DigestError(ToStrErrorMsg))
    ELSE IF i > Len(www_auth_headers) THEN Ok(None)
    ELSE IF contains(to_ascii_lowercase(www_auth_headers[i]), method)
         THEN Ok(Some(www_auth_headers[i]))
         ELSE scan_headers_eager(www_auth_headers, method, i + 1)

\* the inner loop matching a method only on headers that also contain "digest"
RECURSIVE scan_headers_digest_only(_, _, _)
scan_headers_digest_only(www_auth_headers, method, i) ==
    IF i > Len(www_auth_headers) THEN Ok(None)
    ELSE LET header_str == to_str(www_auth_headers[i])
         IN  IF ~header_str.ok THEN Err(DigestError(header_str.value))
             ELSE IF /\ contains(to_ascii_lowercase(header_str.value), method)
                     /\ contains(to_ascii_lowercase(header_str.value), P_DIGEST)
                  THEN Ok(Some(header_str.value))
                  ELSE scan_headers_digest_only(www_auth_headers, method, i + 1)

\* the inner loop from occurrence i on: Err on an occurrence that is not text,
\* Ok(Some(header_str)) at the first match (break), Ok(None) when the loop runs out
RECURSIVE scan_headers(_, _, _)
scan_headers(www_auth_headers, method, i) ==
    IF i > Len(www_auth_headers) THEN Ok(None)
    ELSE LET header_str == to_str(www_auth_headers[i])
         IN  IF ~header_str.ok THEN Err(DigestError(header_str.value))
             ELSE IF contains(to_ascii_lowercase(header_str.value), method)
                  THEN Ok(Some(header_str.value))
                  ELSE scan_headers(www_auth_headers, method, i + 1)

\* the loops nested the other way round: the first occurrence that matches any
\* method from m on is taken, whatever the method
scan_methods_by_header(www_auth_headers, m) ==
    LET matching == {i \in 1..Len(www_auth_headers) :
                        \E k \in m..Len(Methods) :
                            /\ to_str(www_auth_headers[i]).ok
                            /\ contains(to_ascii_lowercase(www_auth_headers[i]), Methods[k])}
    IN  IF \E i \in 1..Len(www_auth_headers) : ~to_str(www_auth_headers[i]).ok
        THEN Err(DigestError(ToStrErrorMsg))
        ELSE IF matching = {} THEN Ok(None)
             ELSE Ok(Some(www_auth_headers[
                    CHOOSE i \in matching : \A j \in matching : i <= j]))

\* the outer loop from method m on: stops at the first method with a match
RECURSIVE scan_methods(_, _)
scan_methods(www_auth_headers, m) ==
    IF m > Len(Methods) THEN Ok(None)
    ELSE LET found == scan_headers(www_auth_headers, Methods[m], 1)
         IN  IF ~found.ok THEN found
             ELSE IF found.value # None THEN found
                  ELSE scan_methods(www_auth_headers, m + 1)

\* www_authenticate falling back on the first occurrence when no method matched
www_authenticate_fallback(res) ==
    LET found == scan_methods(res, 1)
    IN  IF ~found.ok THEN found
        ELSE IF found.value = None
             THEN IF Len(res) = 0 THEN Err(DigestError(NoHeaderMsg)) ELSE Ok(res[1])
             ELSE Ok(found.value[1])

\* lines 71-92: the selected header text, or the error digest_auth returns early
www_authenticate(res) ==
    LET found == scan_methods(res, 1)
    IN  IF ~found.ok THEN found
        ELSE IF found.value = None THEN Err(DigestError(NoHeaderMsg))
             ELSE Ok(found.value[1])

\* www_authenticate, tabulated once over the responses of the model
WwwAuthenticate == [res \in Responses |-> www_authenticate(res)]

---------------------------------------------------------------------------
(* digest_auth: context and the digest_auth crate *)

\* the context as AuthContext::new leaves it: the method stays the default GET
AuthContext_default_method(c, url) ==
    [username |-> c.username, password |-> c.password,
     uri |-> url.path, method |-> "GET"]

\* digest_auth::AuthContext::new(username, password, url.path()), then method = POST
AuthContext(c, url) ==
    [username |-> c.username, password |-> c.password,
     uri |-> url.path, method |-> "POST"]

ParseErrorMsg == "digest_auth::parse failed"
RespondErrorMsg == "WwwAuthenticateHeader::respond failed"

\* digest_auth::parse(www_authenticate)
parse(header, lib) ==
    IF lib = "parse_err" THEN Err(ParseErrorMsg)
    ELSE Ok([challenge |-> header])

\* WwwAuthenticateHeader::respond(&context), then to_string: the response string
\* is a term over the challenge and the context it was computed from
respond(prompt, context, lib) ==
    IF lib = "respond_err" THEN Err(RespondErrorMsg)
    ELSE Ok([scheme |-> "Digest", username |-> context.username,
             password |-> context.password, uri |-> context.uri,
             method |-> context.method, challenge |-> prompt.challenge])

\* digest_auth trying the library a second time when it failed, the second
\* attempt going through
digest_auth_retry(res, c, url, lib) ==
    LET selected == WwwAuthenticate[res]
    IN  IF ~selected.ok THEN selected
        ELSE LET context == AuthContext(c, url)
                 prompt == parse(selected.value, lib)
                 again == parse(selected.value, "ok")
             IN  IF ~prompt.ok THEN Ok(respond(again.value, context, "ok").value)
                 ELSE LET answer == respond(prompt.value, context, lib)
                      IN  IF ~answer.ok
                          THEN Ok(respond(prompt.value, context, "ok").value)
                          ELSE Ok(answer.value)

\* lines 94-102, after the selection of lines 71-92
digest_auth(res, c, url, lib) ==
    LET selected == WwwAuthenticate[res]
    IN  IF ~selected.ok THEN selected
        ELSE LET context == AuthContext(c, url)
                 prompt == parse(selected.value, lib)
             IN  IF ~prompt.ok THEN Err(DigestError(prompt.value))
                 ELSE LET answer == respond(prompt.value, context, lib)
                      IN  IF ~answer.ok THEN Err(DigestError(answer.value))
                          ELSE Ok(answer.value)

---------------------------------------------------------------------------
(* Digest *)

\* new without the clone of the credentials
new_drops_creds(u, c) == [creds |-> None, uri |-> u, state |-> Default]

\* Digest::new
new(u, c) == [creds |-> c, uri |-> u, state |-> Default]

\* set_401 with the second arm storing the newest response instead of the terminal marker
set_401_replace(st, response) ==
    CASE st.tag = "Default" -> Got401(response)
      [] st.tag = "Got401" -> Got401(response)
      [] st.tag = "Got401Twice" -> st

\* set_401 with the second arm leaving the state as it is
set_401_keep(st, response) ==
    CASE st.tag = "Default" -> Got401(response)
      [] st.tag = "Got401" -> st
      [] st.tag = "Got401Twice" -> st

\* set_401 with the third arm starting over instead of doing nothing
set_401_wrap(st, response) ==
    CASE st.tag = "Default" -> Got401(response)
      [] st.tag = "Got401" -> Got401Twice
      [] st.tag = "Got401Twice" -> Default

\* set_401 with the second arm keeping the retained response in the terminal state
set_401_retain(st, response) ==
    CASE st.tag = "Default" -> Got401(response)
      [] st.tag = "Got401" -> [tag |-> "Got401Twice", response |-> st.response]
      [] st.tag = "Got401Twice" -> st

\* Digest::set_401: the new value of self.state
set_401(st, response) ==
    CASE st.tag = "Default" -> Got401(response)
      [] st.tag = "Got401" -> Got401Twice
      [] st.tag = "Got401Twice" -> st

\* is_failed matching every state that has seen a 401
is_failed_any_401(st) == st.tag # "Default"

\* Digest::is_failed
is_failed(st) == st.tag = "Got401Twice"

\* RequestBuilder::header: appends one header to the request
header(request, name, value) ==
    [request EXCEPT !.headers = Append(@, <<name, value>>)]

\* add_headers with the first and the last arm exchanged
add_headers_swapped(c, u, st, request, lib) ==
    CASE st.tag = "Default" -> Err(InvalidState)
      [] st.tag = "Got401" ->
            IF c = None THEN Err(NoCredentials)
            ELSE LET auth == digest_auth(st.response, c[1], u, lib)
                 IN  IF ~auth.ok THEN auth
                     ELSE Ok(header(request, "authorization", auth.value))
      [] st.tag = "Got401Twice" -> Ok(request)

\* add_headers with the last arm passing the request through like the first
add_headers_lenient(c, u, st, request, lib) ==
    CASE st.tag = "Default" -> Ok(request)
      [] st.tag = "Got401" ->
            IF c = None THEN Err(NoCredentials)
            ELSE LET auth == digest_auth(st.response, c[1], u, lib)
                 IN  IF ~auth.ok THEN auth
                     ELSE Ok(header(request, "authorization", auth.value))
      [] st.tag = "Got401Twice" -> Ok(request)

\* add_headers looking for the challenge header before it looks at the credentials
add_headers_inspect_first(c, u, st, request, lib) ==
    CASE st.tag = "Default" -> Ok(request)
      [] st.tag = "Got401" ->
            IF ~WwwAuthenticate[st.response].ok THEN WwwAuthenticate[st.response]
            ELSE IF c = None THEN Err(NoCredentials)
            ELSE LET auth == digest_auth(st.response, c[1], u, lib)
                 IN  IF ~auth.ok THEN auth
                     ELSE Ok(header(request, "authorization", auth.value))
      [] st.tag = "Got401Twice" -> Err(InvalidState)

\* add_headers binding the digest to the method of the outgoing request
add_headers_request_method(c, u, st, request, lib) ==
    CASE st.tag = "Default" -> Ok(request)
      [] st.tag = "Got401" ->
            IF c = None THEN Err(NoCredentials)
            ELSE LET auth == digest_auth(st.response, c[1], u, lib)
                 IN  IF ~auth.ok THEN auth
                     ELSE Ok(header(request, "authorization",
                                    [auth.value EXCEPT !.method = request.method]))
      [] st.tag = "Got401Twice" -> Err(InvalidState)

\* Digest::add_headers
add_headers(c, u, st, request, lib) ==
    CASE st.tag = "Default" -> Ok(request)
      [] st.tag = "Got401" ->
            IF c = None THEN Err(NoCredentials)
            ELSE LET auth == digest_auth(st.response, c[1], u, lib)
                 IN  IF ~auth.ok THEN auth
                     ELSE Ok(header(request, "authorization", auth.value))
      [] st.tag = "Got401Twice" -> Err(InvalidState)

---------------------------------------------------------------------------
(* Calls on one negotiator, in any order *)

Init ==
    \E u \in Urls, c \in CredentialsSet :
        /\ creds = new(u, c).creds
        /\ uri = new(u, c).uri
        /\ state = new(u, c).state
        /\ lastCall = [op |-> "new", uri |-> u, creds |-> c]
        /\ n401 = 0
        /\ first401 = None
        /\ pc = "caller"
        /\ sends = 0
        /\ pending = None

CallSet401 ==
    \E response \in Responses :
        /\ n401 < Max401Calls
        /\ state' = set_401(state, response)
        /\ lastCall' = [op |-> "set_401"]
        /\ n401' = n401 + 1
        /\ first401' = IF n401 = 0 THEN Some(response) ELSE first401
        /\ UNCHANGED <<creds, uri, pc, sends, pending>>

CallIsFailed ==
    /\ lastCall' = [op |-> "is_failed", result |-> is_failed(state)]
    /\ UNCHANGED <<creds, uri, state, n401, first401, pc, sends, pending>>

\* a call of add_headers that marks the negotiator failed when it returns an error
CallAddHeaders_marks_failed ==
    \E request \in Requests, lib \in LibOutcomes :
        LET result == add_headers(creds, uri, state, request, lib)
        IN  /\ lastCall' = [op |-> "add_headers", request |-> request, lib |-> lib,
                            result |-> result]
            /\ state' = IF ~result.ok /\ state.tag = "Got401" THEN Got401Twice ELSE state
            /\ UNCHANGED <<creds, uri, n401, first401, pc, sends, pending>>

CallAddHeaders ==
    \E request \in Requests, lib \in LibOutcomes :
        /\ lastCall' = [op |-> "add_headers", request |-> request, lib |-> lib,
                        result |-> add_headers(creds, uri, state, request, lib)]
        /\ UNCHANGED <<creds, uri, state, n401, first401, pc, sends, pending>>

Next == CallSet401 \/ CallIsFailed \/ CallAddHeaders

Spec == Init /\ [][Next]_vars

---------------------------------------------------------------------------
(* The caller's retry loop, against a server that answers every attempt     *)
(* with 401: add_headers before each send, set_401 on each 401 response,    *)
(* is_failed before sending again.  An Err from add_headers leaves the      *)
(* caller without a request to send, and ends the loop.                     *)

LoopInit ==
    \E u \in Urls, c \in CredentialsSet :
        /\ creds = new(u, c).creds
        /\ uri = new(u, c).uri
        /\ state = new(u, c).state
        /\ lastCall = [op |-> "new", uri |-> u, creds |-> c]
        /\ n401 = 0
        /\ first401 = None
        /\ pc = "attach"
        /\ sends = 0
        /\ pending = None

LoopAddHeaders ==
    \E request \in Requests, lib \in LibOutcomes :
        LET result == add_headers(creds, uri, state, request, lib)
        IN  /\ pc = "attach"
            /\ lastCall' = [op |-> "add_headers", request |-> request, lib |-> lib,
                            result |-> result]
            /\ pc' = IF result.ok THEN "send" ELSE "done"
            /\ UNCHANGED <<creds, uri, state, n401, first401, sends, pending>>

LoopSend ==
    \E response \in Responses :
        /\ pc = "send"
        /\ sends < MaxSends
        /\ sends' = sends + 1
        /\ pending' = Some(response)
        /\ pc' = "got401"
        /\ UNCHANGED <<creds, uri, state, lastCall, n401, first401>>

LoopSet401 ==
    /\ pc = "got401"
    /\ n401 < Max401Calls
    /\ state' = set_401(state, pending[1])
    /\ lastCall' = [op |-> "set_401"]
    /\ n401' = n401 + 1
    /\ first401' = IF n401 = 0 THEN pending ELSE first401
    /\ pending' = None
    /\ pc' = "check"
    /\ UNCHANGED <<creds, uri, sends>>

LoopIsFailed ==
    /\ pc = "check"
    /\ lastCall' = [op |-> "is_failed", result |-> is_failed(state)]
    /\ pc' = IF is_failed(state) THEN "done" ELSE "attach"
    /\ UNCHANGED <<creds, uri, state, n401, first401, sends, pending>>

LoopNext == LoopAddHeaders \/ LoopSend \/ LoopSet401 \/ LoopIsFailed

LoopSpec == LoopInit /\ [][LoopNext]_vars

\* the caller runs its loop to the end: it takes its next step whenever it has one
FairLoopSpec == LoopSpec /\ WF_vars(LoopNext)

---------------------------------------------------------------------------
(* Claims *)

\* C1: after the first set_401 call the state is Got401 and retains exactly the
\* response passed to that call; after the second call it is Got401Twice with
\* no response retained; the third and every later call leaves it Got401Twice.
C1_Set401Sequence ==
    /\ n401 = 0 => state = Default
    /\ n401 = 1 => first401 # None /\ state = Got401(first401[1])
    /\ n401 >= 2 => state = Got401Twice

\* three set_401 calls were made, the last of them on a terminal negotiator
C1_Witness ==
    n401 >= 3 /\ lastCall.op = "set_401" /\ state = Got401Twice

Rank(st) ==
    CASE st.tag = "Default" -> 0
      [] st.tag = "Got401" -> 1
      [] st.tag = "Got401Twice" -> 2

\* C2: every step leaves the state where it is or moves it one place forward
\* in the order Default, Got401, Got401Twice: it never goes back and never
\* skips from Default to Got401Twice.
C2_ForwardOnly ==
    [][Rank(state') = Rank(state) \/ Rank(state') = Rank(state) + 1]_vars

\* add_headers was called on a negotiator that went all the way to Got401Twice
C2_Witness ==
    state = Got401Twice /\ lastCall.op = "add_headers" /\ n401 >= 3

\* C4: add_headers on a negotiator in state Default returns Ok with the input
\* request unchanged, with or without credentials.
C4_DefaultPassesThrough ==
    (lastCall.op = "add_headers" /\ state = Default)
        => lastCall.result = Ok(lastCall.request)

\* add_headers was called in state Default on a negotiator holding credentials
C4_Witness ==
    /\ lastCall.op = "add_headers" /\ state = Default /\ creds # None
    /\ lastCall.result.ok

\* C5: whenever is_failed() is true, add_headers fails with InvalidState, for
\* every choice of credentials and every 401 response fed to set_401 before.
C5_FailedIsInvalidState ==
    (lastCall.op = "add_headers" /\ is_failed(state))
        => lastCall.result = Err(InvalidState)

\* add_headers was called on a failed negotiator that holds credentials and
\* whose first 401 carried a usable Digest challenge
C5_Witness ==
    /\ lastCall.op = "add_headers" /\ is_failed(state) /\ creds # None
    /\ first401 = Some(<<H_MD5>>)
    /\ lastCall.lib = "ok" /\ ~lastCall.result.ok

\* C3 as stated: the retry loop sends at most two attempts and ends with
\* is_failed() true (the finite form of "is_failed eventually becomes true":
\* the loop's last state is the one that lasts).
C3_Original ==
    /\ sends <= 2
    /\ pc = "done" => is_failed(state)

\* C3, amended: the retry loop never sends a third attempt and always ends;
\* it ends after two attempts with is_failed() true, or after the single bare
\* attempt with is_failed() false, because add_headers failed with
\* NoCredentials or Digest on the retained response.
C3_LoopBounded ==
    /\ [](sends <= 2)
    /\ <>(pc = "done")
    /\ [](pc = "done" =>
            \/ sends = 2 /\ is_failed(state)
            \/ /\ sends = 1 /\ ~is_failed(state) /\ state.tag = "Got401"
               /\ lastCall.op = "add_headers" /\ ~lastCall.result.ok
               /\ lastCall.result.value.kind \in {"NoCredentials", "Digest"})

\* the loop ended after a bare attempt and an attempt with credentials
C3_Witness ==
    /\ pc = "done" /\ sends = 2 /\ is_failed(state) /\ creds # None
    /\ first401 # None /\ www_authenticate(first401[1]).ok

---------------------------------------------------------------------------
(* Header text, as the claims speak of it *)

IsText(h) == \A i \in 1..Len(h) : h[i] = 9 \/ (h[i] >= 32 /\ h[i] <= 126)

Folded(h) == [i \in 1..Len(h) |-> IF h[i] \in 65..90 THEN h[i] + 32 ELSE h[i]]

Occurs(pat, h) ==
    \E k \in 1..(Len(h) - Len(pat) + 1) : \A j \in 1..Len(pat) : h[k + j - 1] = pat[j]

\* the header is text and contains pat, letter case aside
Mentions(h, pat) == IsText(h) /\ Occurs(pat, Folded(h))

\* algorithm=sha-256
T_SHA256 ==
    <<97, 108, 103, 111, 114, 105, 116, 104, 109, 61, 115, 104, 97, 45, 50, 53, 54>>

\* algorithm=
T_ALGORITHM ==
    <<97, 108, 103, 111, 114, 105, 116, 104, 109, 61>>

\* add_headers was the last call, made in state Got401 with credentials configured
AddHeadersInGot401 ==
    lastCall.op = "add_headers" /\ state.tag = "Got401" /\ creds # None

\* the last call returned the request with header h answered in Authorization
Answered(h) ==
    /\ lastCall.result.ok
    /\ lastCall.result.value.headers =
          Append(lastCall.request.headers,
                 <<"authorization", lastCall.result.value.headers[Len(lastCall.result.value.headers)][2]>>)
    /\ lastCall.result.value.headers[Len(lastCall.result.value.headers)][2].challenge = h

\* C6: add_headers after exactly one set_401 call, on a negotiator constructed
\* without credentials, fails with NoCredentials, whatever the retained
\* response carries (no headers, non-Digest, non-text or valid Digest headers).
C6_NoCredentialsFirst ==
    (lastCall.op = "add_headers" /\ n401 = 1 /\ creds = None)
        => lastCall.result = Err(NoCredentials)

\* add_headers failed with NoCredentials on a retained response whose first
\* header is not text
C6_Witness ==
    /\ lastCall.op = "add_headers" /\ n401 = 1 /\ creds = None
    /\ state = Got401(<<H_BINARY, H_MD5>>)
    /\ lastCall.result = Err(NoCredentials)

\* C7: add_headers after one 401, with credentials, fails with
\* Digest("No www-authenticate digest header") whenever every header of the
\* retained response is text and none contains "algorithm=sha", "algorithm=md5"
\* or "digest"; a response without any WWW-Authenticate header is such a case.
C7_NoHeaderMessage ==
    ( /\ AddHeadersInGot401
      /\ \A i \in 1..Len(state.response) :
            /\ IsText(state.response[i])
            /\ ~Mentions(state.response[i], P_SHA)
            /\ ~Mentions(state.response[i], P_MD5)
            /\ ~Mentions(state.response[i], P_DIGEST) )
        => lastCall.result = Err(DigestError(NoHeaderMsg))

\* add_headers failed in this way on a response without WWW-Authenticate
\* headers, although the library would have succeeded
C7_Witness ==
    /\ AddHeadersInGot401 /\ n401 = 1 /\ state.response = <<>>
    /\ lastCall.lib = "ok"
    /\ lastCall.result = Err(DigestError("No www-authenticate digest header"))

\* C8: when the retained response has two WWW-Authenticate headers, one
\* containing "algorithm=md5" (and not "algorithm=sha") and one containing
\* "algorithm=sha-256", letter case aside, the header selected is the SHA-256
\* one in both orders, and it is the one the Authorization value answers.
C8_Sha256OverMd5 ==
    \A i, j \in 1..2 :
        ( /\ state.tag = "Got401" /\ Len(state.response) = 2 /\ i # j
          /\ Mentions(state.response[i], P_MD5)
          /\ ~Mentions(state.response[i], P_SHA)
          /\ Mentions(state.response[j], T_SHA256) )
            => /\ www_authenticate(state.response) = Ok(state.response[j])
               /\ (AddHeadersInGot401 /\ lastCall.lib = "ok")
                      => Answered(state.response[j])

\* add_headers answered the SHA-256 header that came second, after an MD5 header
C8_Witness ==
    /\ AddHeadersInGot401 /\ state.response = <<H_MD5, H_SHA_BEARER>>
    /\ Answered(H_SHA_BEARER)

\* the first header of hs, in original order, that mentions pat
FirstMentioning(hs, pat) ==
    LET I == {i \in 1..Len(hs) : Mentions(hs[i], pat)}
    IN  IF I = {} THEN None
        ELSE Some(hs[CHOOSE i \in I : \A j \in I : i <= j])

\* the reference tiered scan
TieredScan(hs) ==
    IF FirstMentioning(hs, P_SHA) # None THEN FirstMentioning(hs, P_SHA)
    ELSE IF FirstMentioning(hs, P_MD5) # None THEN FirstMentioning(hs, P_MD5)
    ELSE FirstMentioning(hs, P_DIGEST)

\* C9: over a retained response whose headers are all text, the header
\* selected is the one the reference tiered scan gives: the first header in
\* original order containing "algorithm=sha", else the first containing
\* "algorithm=md5", else the first containing "digest", else nothing (the
\* missing-header error); a successful add_headers answers that header.
C9_TieredScan ==
    ( /\ state.tag = "Got401"
      /\ \A i \in 1..Len(state.response) : IsText(state.response[i]) )
        => /\ www_authenticate(state.response) =
                IF TieredScan(state.response) = None
                THEN Err(DigestError(NoHeaderMsg))
                ELSE Ok(TieredScan(state.response)[1])
           /\ (AddHeadersInGot401 /\ lastCall.result.ok)
                  => Answered(TieredScan(state.response)[1])

\* add_headers answered a second-tier header that came after a third-tier one
C9_Witness ==
    /\ AddHeadersInGot401 /\ state.response = <<H_DIGEST, H_MD5>>
    /\ Answered(H_MD5)

\* C10: when the only WWW-Authenticate header of the retained response
\* contains "digest" (any case) and no "algorithm=" token, that header is the
\* one selected and handed to the parser, and add_headers succeeds, answering
\* it, whenever the library's parse and respond succeed.
C10_ThirdTier ==
    ( /\ state.tag = "Got401" /\ Len(state.response) = 1
      /\ Mentions(state.response[1], P_DIGEST)
      /\ ~Mentions(state.response[1], T_ALGORITHM) )
        => /\ www_authenticate(state.response) = Ok(state.response[1])
           /\ (AddHeadersInGot401 /\ lastCall.lib = "ok")
                  => Answered(state.response[1])
           /\ (AddHeadersInGot401 /\ lastCall.lib # "ok")
                  => /\ ~lastCall.result.ok
                     /\ lastCall.result.value.kind = "Digest"

\* add_headers succeeded on a lone Digest header that names no algorithm
C10_Witness ==
    /\ AddHeadersInGot401 /\ state.response = <<H_DIGEST>>
    /\ lastCall.lib = "ok" /\ Answered(H_DIGEST)

\* C11 as stated: in state Got401 with credentials, add_headers fails with a
\* Digest error whenever some WWW-Authenticate occurrence of the retained
\* response is not valid text, wherever that occurrence sits.
C11_Original ==
    ( /\ AddHeadersInGot401
      /\ \E i \in 1..Len(state.response) : ~IsText(state.response[i]) )
        => /\ ~lastCall.result.ok
           /\ lastCall.result.value.kind = "Digest"

\* C12: in every reachable state is_failed() is true exactly when the state is
\* Got401Twice, which is exactly when set_401 has been called at least twice;
\* this is so after add_headers calls too, successful or failing, and it is
\* the value an is_failed call returns.
C12_FailedIffTwice ==
    /\ is_failed(state) <=> state = Got401Twice
    /\ state = Got401Twice <=> n401 >= 2
    /\ lastCall.op = "is_failed" => lastCall.result = (n401 >= 2)
    /\ lastCall.op = "add_headers" => (is_failed(state) <=> n401 >= 2)

\* is_failed returned true right after the second set_401 call, and false
\* would have been wrong
C12_Witness ==
    lastCall.op = "is_failed" /\ lastCall.result = TRUE /\ n401 = 2

\* C13: in every reachable state a response is retained exactly when the state
\* is Got401, and it is the response of the first set_401 call; from the
\* second call on nothing is retained, whatever response was passed, and
\* add_headers computes a header from the first response only.
C13_OneRetained ==
    /\ ("response" \in DOMAIN state) <=> state.tag = "Got401"
    /\ state.tag = "Got401" => first401 # None /\ state.response = first401[1]
    /\ n401 >= 2 => "response" \notin DOMAIN state
    /\ (lastCall.op = "add_headers" /\ n401 >= 1 /\ lastCall.result.ok)
          => /\ n401 = 1
             /\ \E i \in 1..Len(first401[1]) : Answered(first401[1][i])

\* a second response was passed to set_401 and none is retained
C13_Witness ==
    /\ n401 = 2 /\ lastCall.op = "set_401" /\ first401 = Some(<<H_MD5>>)
    /\ "response" \notin DOMAIN state

\* C14: after construction the stored URL and credentials are the values
\* given to new, and every later set_401, is_failed and add_headers call, in
\* every state and on success and failure alike, leaves both unchanged.
C14_TargetAndCredsFixed ==
    /\ (lastCall.op = "new" /\ creds = lastCall.creds /\ uri = lastCall.uri)
    /\ [][creds' = creds /\ uri' = uri]_vars

\* set_401 was called twice and add_headers then failed, on a negotiator that
\* still holds the credentials and the URL it was constructed with
C14_Witness ==
    /\ n401 >= 2 /\ lastCall.op = "add_headers" /\ ~lastCall.result.ok
    /\ creds = Some([username |-> "alice", password |-> "secret"])
    /\ uri.path = "/onvif/media" /\ uri.query = "profile=1"

\* the Authorization value of the request the last call returned
AuthorizationValue ==
    lastCall.result.value.headers[Len(lastCall.result.value.headers)][2]

\* C15: when add_headers succeeds in state Got401, the returned request is the
\* input request with one Authorization header added, whose value is the
\* library's response to the selected header under a context made of the
\* credential username and password, the path of the URL given at
\* construction (no host, no query) and the method POST.  With alice/secret,
\* https://cam.local/onvif/device_service and the single header
\* `Digest realm="onvif", nonce="abc123", algorithm=MD5, qop="auth"`, it
\* succeeds, the library succeeding, with username "alice" and uri
\* "/onvif/device_service".
C15_ContextAndHeader ==
    /\ (AddHeadersInGot401 /\ lastCall.result.ok)
          => /\ lastCall.result.value =
                    [lastCall.request EXCEPT
                        !.headers = Append(@, <<"authorization", AuthorizationValue>>)]
             /\ AuthorizationValue =
                    [scheme |-> "Digest",
                     username |-> creds[1].username,
                     password |-> creds[1].password,
                     uri |-> uri.path,
                     method |-> "POST",
                     challenge |-> www_authenticate(state.response).value]
    /\ ( /\ AddHeadersInGot401 /\ lastCall.lib = "ok"
         /\ creds = Some([username |-> "alice", password |-> "secret"])
         /\ uri = [scheme |-> "https", host |-> "cam.local",
                   path |-> "/onvif/device_service", query |-> ""]
         /\ state.response = <<H_MD5>> )
          => /\ lastCall.result.ok
             /\ AuthorizationValue.username = "alice"
             /\ AuthorizationValue.uri = "/onvif/device_service"
             /\ AuthorizationValue.challenge = H_MD5

\* add_headers succeeded for a URL that has a query, on a GET request
C15_Witness ==
    /\ AddHeadersInGot401 /\ lastCall.result.ok
    /\ uri.query = "profile=1" /\ lastCall.request.method = "GET"
    /\ AuthorizationValue.uri = "/onvif/media"
    /\ AuthorizationValue.method = "POST"

Outcome(result) ==
    IF result.ok
    THEN <<"ok", result.value.headers[Len(result.value.headers)][2]>>
    ELSE <<"err", result.value>>

\* C17: in state Got401 the outcome of add_headers (the Authorization value or
\* the error) depends on the retained response, the credentials and the URL
\* only: a negotiator with the same three, given any other outgoing request
\* (another method, URL, headers) and the same library behaviour, gives the
\* same outcome.
C17_RequestIndependent ==
    (lastCall.op = "add_headers" /\ state.tag = "Got401")
        => \A other \in Requests :
              Outcome(add_headers(creds, uri, state, other, lastCall.lib))
                  = Outcome(lastCall.result)

\* add_headers answered a challenge on a GET request that already carried an
\* Authorization header, with the value a POST request gets
C17_Witness ==
    /\ AddHeadersInGot401 /\ lastCall.result.ok
    /\ lastCall.request.method = "GET"
    /\ \E other \in Requests :
          /\ other.method = "POST"
          /\ Outcome(add_headers(creds, uri, state, other, lastCall.lib))
                = <<"ok", AuthorizationValue>>

\* C18: a step that calls add_headers or is_failed leaves the state as it is,
\* in every state and whatever add_headers returns; a step that changes the
\* state is a set_401 call.  So after add_headers has failed with
\* NoCredentials or Digest in state Got401, an is_failed call returns false
\* and another add_headers call, the library behaving the same, returns the
\* same error.
C18_OnlySet401Changes ==
    [][ /\ lastCall'.op \in {"add_headers", "is_failed"} => state' = state
        /\ state' # state => lastCall'.op = "set_401"
        /\ ( /\ lastCall.op = "add_headers" /\ state.tag = "Got401"
             /\ ~lastCall.result.ok
             /\ lastCall.result.value.kind \in {"NoCredentials", "Digest"} )
              => /\ lastCall'.op = "is_failed" => lastCall'.result = FALSE
                 /\ (lastCall'.op = "add_headers" /\ lastCall'.lib = lastCall.lib)
                        => lastCall'.result = lastCall.result
      ]_vars

\* add_headers failed with Digest in state Got401 and the negotiator is as it was
C18_Witness ==
    /\ lastCall.op = "add_headers" /\ creds # None
    /\ lastCall.result = Err(DigestError(NoHeaderMsg))
    /\ state = Got401(<<H_BASIC>>) /\ ~is_failed(state)

\* a non-text occurrence exists, and no header contains "algorithm=sha" or a
\* non-text occurrence comes before the first header that does
NonTextInspected(hs) ==
    LET nonText == {i \in 1..Len(hs) : ~IsText(hs[i])}
        sha == {i \in 1..Len(hs) : Mentions(hs[i], P_SHA)}
    IN  /\ nonText # {}
        /\ \/ sha = {}
           \/ \E i \in nonText : \A j \in sha : i < j

\* C19: in state Got401 with credentials, header selection fails with the
\* not-valid-text Digest error exactly when a non-text occurrence exists and
\* either no header contains "algorithm=sha" or a non-text occurrence precedes
\* the first header that does; a non-text occurrence after the first
\* "algorithm=sha" match is not inspected and causes no error.
C19_LazyTextCheck ==
    state.tag = "Got401"
        => /\ (www_authenticate(state.response) = Err(DigestError(ToStrErrorMsg)))
                <=> NonTextInspected(state.response)
           /\ AddHeadersInGot401
                => ((lastCall.result = Err(DigestError(ToStrErrorMsg)))
                        <=> NonTextInspected(state.response))

\* add_headers answered a SHA-256 header that was followed by a non-text occurrence
C19_Witness ==
    /\ AddHeadersInGot401 /\ state.response = <<H_SHA, H_BINARY>>
    /\ lastCall.lib = "ok" /\ Answered(H_SHA)

\* the first header of hs that mentions pat does not mention "digest", and
\* another header of hs mentions "digest" but not pat
NonDigestFirst(hs, pat) ==
    /\ FirstMentioning(hs, pat) # None
    /\ ~Mentions(FirstMentioning(hs, pat)[1], P_DIGEST)
    /\ \E j \in 1..Len(hs) : Mentions(hs[j], P_DIGEST) /\ ~Mentions(hs[j], pat)

\* C20: over text headers, a header that contains "algorithm=sha" (or, when no
\* header does, "algorithm=md5") and not "digest" is selected in preference to
\* every header that matches a later tier only and does contain "digest",
\* wherever they sit; a successful add_headers then answers the non-Digest
\* header although the response offered a Digest challenge.
C20_NonDigestPreferred ==
    ( /\ state.tag = "Got401"
      /\ \A i \in 1..Len(state.response) : IsText(state.response[i]) )
        => /\ NonDigestFirst(state.response, P_SHA)
                => /\ www_authenticate(state.response)
                        = Ok(FirstMentioning(state.response, P_SHA)[1])
                   /\ (AddHeadersInGot401 /\ lastCall.lib = "ok")
                        => Answered(FirstMentioning(state.response, P_SHA)[1])
           /\ ( /\ FirstMentioning(state.response, P_SHA) = None
                /\ NonDigestFirst(state.response, P_MD5) )
                => /\ www_authenticate(state.response)
                        = Ok(FirstMentioning(state.response, P_MD5)[1])
                   /\ (AddHeadersInGot401 /\ lastCall.lib = "ok")
                        => Answered(FirstMentioning(state.response, P_MD5)[1])

\* add_headers answered a Bearer header naming SHA-256 although a Digest
\* challenge came first in the response
C20_Witness ==
    /\ AddHeadersInGot401 /\ state.response = <<H_DIGEST, H_SHA_BEARER>>
    /\ lastCall.lib = "ok" /\ Answered(H_SHA_BEARER)

=============================================================================
